---- MODULE Spec2Model ----
(***************************************************************************)
(* Model of modules/model/StableDiffusionModel.py and                      *)
(* modules/modelLoader/FineTuneModelLoader.py.                             *)
(*                                                                         *)
(* Tensors and sub-networks are opaque: a tensor is the term that built    *)
(* it (a record or a sequence of small integers), so two results are equal *)
(* exactly when they were computed from the same inputs in the same way.   *)
(***************************************************************************)
EXTENDS Integers, Sequences, FiniteSets, TLC

VARIABLES
    model,         \* the bundle the caller holds (last value returned by load), or None
    heap,          \* the TrainProgress objects: address -> counters
    attempts,      \* the strategy calls the last load made, in order, with their outcome
    loaded,        \* the arguments of the last load
    pipeline,      \* the last value returned by create_pipeline
    rngGlobal,     \* state of torch's process-global random generator
    lastPredict,   \* the last predict call: its inputs and what it returned or raised
    kept           \* an earlier predict call the caller kept for comparison

vars == <<model, heap, attempts, loaded, pipeline, rngGlobal, lastPredict, kept>>

----------------------------------------------------------------------------
(* Bounds *)

MaxStep == 2      \* the training-progress counters stop here
MaxT == 3         \* largest num_train_timesteps of a scheduler config
MaxBatch == 2     \* largest batch size
RngMod == 4       \* number of states of a random generator
MnsDen == 4       \* max_noising_strength ranges over k / MnsDen, k in 1..MnsDen

----------------------------------------------------------------------------
(* Python values *)

None == [kind |-> "None"]

Raised(exc) == [kind |-> "raise", exc |-> exc]

IsRaised(r) == r.kind = "raise"

----------------------------------------------------------------------------
(* ModelType: a tag and its three capability flags.  The enum itself is    *)
(* not among the sources; the tags are the ones the loader's table names.  *)

Tags == {"STABLE_DIFFUSION_15", "STABLE_DIFFUSION_15_INPAINTING",
         "STABLE_DIFFUSION_20", "STABLE_DIFFUSION_20_INPAINTING",
         "STABLE_DIFFUSION_20_DEPTH", "OTHER"}

ModelTypes == [tag : Tags, cond : BOOLEAN, mask : BOOLEAN, depth : BOOLEAN]

\* the types the loader is called with: it reads the tag and the depth flag only
LoadTypes == {t \in ModelTypes : ~t.cond /\ ~t.mask}

\* the types predict and create_pipeline are exercised with: every flag combination
FlagTypes == {t \in ModelTypes : t.tag = "OTHER"}

has_conditioning_image_input(t) == t.cond

has_mask_input(t) == t.mask

has_depth_input(t) == t.depth

----------------------------------------------------------------------------
(* TrainProgress objects live on a heap, because bundles hold references.  *)

TrainProgress(e, es, esa, gs) ==
    [epoch |-> e, epoch_step |-> es, epoch_sample |-> esa, global_step |-> gs]

ZeroProgress == TrainProgress(0, 0, 0, 0)

\* the object built once, when __init__ is defined, as the default argument
DefaultAddr == "default"

\* the object __load_internal_model builds for the bundle it returns
OwnAddr == "own"

next_step(p) ==
    [p EXCEPT !.epoch_step = @ + 1, !.epoch_sample = @ + 1, !.global_step = @ + 1]

next_epoch(p) == [p EXCEPT !.epoch = @ + 1]

----------------------------------------------------------------------------
(* What is on disk under an identifier *)

MetaProgress == {TrainProgress(1, 0, 0, 1)}

Directories ==
    [kind : {"dir"}, meta : {"none", "bad", "ok"}, progress : MetaProgress,
     optimizer : BOOLEAN, weights : BOOLEAN, depth : BOOLEAN,
     timesteps : {MaxT}, convertible : {FALSE}, yaml : {FALSE}, yml : {FALSE}]

Files ==
    [kind : {"file"}, meta : {"none"}, progress : {TrainProgress(1, 0, 0, 1)},
     optimizer : {FALSE}, weights : {FALSE}, depth : {FALSE},
     timesteps : {MaxT}, convertible : BOOLEAN, yaml : BOOLEAN, yml : BOOLEAN]

Missing ==
    [kind : {"missing"}, meta : {"none"}, progress : {TrainProgress(1, 0, 0, 1)},
     optimizer : {FALSE}, weights : {FALSE}, depth : {FALSE},
     timesteps : {MaxT}, convertible : {FALSE}, yaml : {FALSE}, yml : {FALSE}]

Layouts ==
    {d \in Directories : d.meta # "ok" => d.progress = TrainProgress(1, 0, 0, 1)}
        \cup Files \cup Missing

----------------------------------------------------------------------------
(* StableDiffusionModel.__init__ *)

StableDiffusionModel(model_type, tokenizer, noise_scheduler, text_encoder, vae, unet, image_depth_processor, depth_estimator, optimizer_state_dict, train_progress) ==
    [kind |-> "model",
     model_type |-> model_type,
     tokenizer |-> tokenizer,
     noise_scheduler |-> noise_scheduler,
     text_encoder |-> text_encoder,
     vae |-> vae,
     unet |-> unet,
     image_depth_processor |-> image_depth_processor,
     depth_estimator |-> depth_estimator,
     optimizer |-> "None",
     optimizer_state_dict |-> optimizer_state_dict,
     train_progress |-> train_progress]

----------------------------------------------------------------------------
(* FineTuneModelLoader *)

\* try: <body> except: return None
TryExcept(r) == IF IsRaised(r) THEN None ELSE r

diffusers_body(name, model_type) ==
    IF name.kind # "dir" \/ ~name.weights
    THEN Raised("OSError")
    ELSE IF has_depth_input(model_type) /\ ~name.depth
    THEN Raised("OSError")
    ELSE StableDiffusionModel(
             model_type, "tokenizer", [num_train_timesteps |-> name.timesteps],
             "text_encoder", "vae", "unet",
             IF has_depth_input(model_type) THEN "feature_extractor" ELSE "None",
             IF has_depth_input(model_type) THEN "depth_estimator" ELSE "None",
             "None", DefaultAddr)

load_diffusers_model(name, model_type) == TryExcept(diffusers_body(name, model_type))

internal_body(name, model_type) ==
    IF name.kind # "dir" \/ name.meta = "none"
    THEN Raised("FileNotFoundError")
    ELSE IF name.meta = "bad"
    THEN Raised("KeyError")
    ELSE LET m == load_diffusers_model(name, model_type)
         IN  IF m = None
             THEN Raised("AttributeError")
             ELSE IF ~name.optimizer
             THEN Raised("FileNotFoundError")
             ELSE [m EXCEPT !.optimizer_state_dict = "optimizer.pt",
                            !.train_progress = OwnAddr]

\* __load_internal_model without its try/except
load_internal_model_unguarded(name, model_type) == internal_body(name, model_type)

load_internal_model(name, model_type) == TryExcept(internal_body(name, model_type))

default_yaml_name(model_type) ==
    CASE model_type.tag = "STABLE_DIFFUSION_15" ->
             "resources/diffusers_model_config/v1-inference.yaml"
      [] model_type.tag = "STABLE_DIFFUSION_15_INPAINTING" ->
             "resources/diffusers_model_config/v1-inpainting-inference.yaml"
      [] model_type.tag = "STABLE_DIFFUSION_20" ->
             "resources/diffusers_model_config/v2-inference.yaml"
      [] model_type.tag = "STABLE_DIFFUSION_20_INPAINTING" ->
             "resources/diffusers_model_config/v2-inpainting-inference.yaml"
      [] model_type.tag = "STABLE_DIFFUSION_20_DEPTH" ->
             "resources/diffusers_model_config/v2-midas-inference.yaml"
      [] OTHER -> "None"

yaml_name(name, model_type) ==
    IF name.yaml THEN "sibling.yaml"
    ELSE IF name.yml THEN "sibling.yml"
    ELSE default_yaml_name(model_type)

ckpt_body(name, model_type) ==
    IF name.kind # "file" \/ ~name.convertible
    THEN Raised("OSError")
    ELSE IF yaml_name(name, model_type) = "None"
    THEN Raised("TypeError")
    ELSE StableDiffusionModel(
             model_type, "tokenizer", [num_train_timesteps |-> name.timesteps],
             "text_encoder", "vae", "unet", "None", "None", "None", DefaultAddr)

load_ckpt_model(name, model_type) == TryExcept(ckpt_body(name, model_type))

Call(strategy, r) == [strategy |-> strategy, ok |-> r.kind = "model", raised |-> IsRaised(r)]

\* load with the first two strategies in the wrong order
load_diffusers_first(name, model_type) ==
    LET r1 == load_diffusers_model(name, model_type)
        r2 == load_internal_model(name, model_type)
        r3 == load_ckpt_model(name, model_type)
    IN  IF IsRaised(r1) \/ r1 # None
        THEN [result |-> r1, calls |-> <<Call("diffusers", r1)>>]
        ELSE IF IsRaised(r2) \/ r2 # None
        THEN [result |-> r2, calls |-> <<Call("diffusers", r1), Call("internal", r2)>>]
        ELSE [result |-> r3, calls |-> <<Call("diffusers", r1), Call("internal", r2),
                                          Call("ckpt", r3)>>]

\* load: the value returned (or the exception that escapes) and the calls made
load(name, model_type) ==
    LET r1 == load_internal_model(name, model_type)
        r2 == load_diffusers_model(name, model_type)
        r3 == load_ckpt_model(name, model_type)
    IN  IF IsRaised(r1) \/ r1 # None
        THEN [result |-> r1, calls |-> <<Call("internal", r1)>>]
        ELSE IF IsRaised(r2) \/ r2 # None
        THEN [result |-> r2, calls |-> <<Call("internal", r1), Call("diffusers", r2)>>]
        ELSE IF IsRaised(r3) \/ r3 # None
        THEN [result |-> r3, calls |-> <<Call("internal", r1), Call("diffusers", r2),
                                          Call("ckpt", r3)>>]
        ELSE [result |-> None, calls |-> <<Call("internal", r1), Call("diffusers", r2),
                                            Call("ckpt", r3)>>]

----------------------------------------------------------------------------
(* Random generators.  A generator is its state; a draw returns the state  *)
(* and advances it, so a stream is determined by the state it starts from. *)

manual_seed(seed) == seed % RngMod

Advance(s, n) == (s + n) % RngMod

\* torch.randn(shape, generator=g): one value per batch element
randn(s, n) == [i \in 1..n |-> Advance(s, i - 1)]

\* torch.randint(low, high, size=(n,)): one integer of [low, high) per element
randint(s, low, high, n) == [i \in 1..n |-> low + (Advance(s, i - 1) % (high - low))]

----------------------------------------------------------------------------
(* StableDiffusionModel.predict *)

BatchKeys == {"latent_image", "latent_conditioning_image", "latent_mask",
              "latent_depth", "tokens"}

\* batch[key]: the tensor the caller put under key
Field(batch, key) == [kind |-> "tensor", field |-> key, size |-> batch.size]

Has(batch, key) == key \in batch.keys

KeyError(key) == Raised(<<"KeyError", key>>)

\* the upper bound rounded up instead of down
TimestepHighCeil(T, mns) == (T * mns + MnsDen - 1) \div MnsDen

\* high = int(num_train_timesteps * max_noising_strength)
TimestepHigh(T, mns) == (T * mns) \div MnsDen

\* the noise drawn from the process-global generator instead
latent_noise_global(rng, global_step, size, args) ==
    IF args.offset_noise_weight > 0
    THEN LET normal_noise == randn(rng, size)
             offset_noise == randn(Advance(rng, size), size)
         IN  [i \in 1..size |->
                 normal_noise[i] + args.offset_noise_weight * offset_noise[i]]
    ELSE randn(rng, size)

\* lines 96-104: the noise, drawn from the generator seeded with global_step
\* (rng, the process-global generator's state, is in reach of the code but unused)
latent_noise(rng, global_step, size, args) ==
    LET g == manual_seed(global_step)
    IN  IF args.offset_noise_weight > 0
        THEN LET normal_noise == randn(g, size)
                 offset_noise == randn(Advance(g, size), size)
             IN  [i \in 1..size |->
                     normal_noise[i] + args.offset_noise_weight * offset_noise[i]]
        ELSE randn(g, size)

\* lines 106-111: the timesteps; randint is given no generator, so it draws
\* from the process-global one (the seeded generator is in reach but unused)
timestep(rng, global_step, high, size) == randint(rng, 0, high, size)

\* the mask read whenever the type has a mask input
latent_input_mask_only(batch, args, noisy, scaled_cond) ==
    IF has_mask_input(args.model_type)
    THEN IF Has(batch, "latent_mask")
         THEN [kind |-> "concat", of |-> <<noisy, Field(batch, "latent_mask"), scaled_cond>>]
         ELSE KeyError("latent_mask")
    ELSE noisy

\* lines 117-120: the denoiser's input
latent_input(batch, args, noisy, scaled_cond) ==
    IF has_mask_input(args.model_type) /\ has_conditioning_image_input(args.model_type)
    THEN IF Has(batch, "latent_mask")
         THEN [kind |-> "concat", of |-> <<noisy, Field(batch, "latent_mask"), scaled_cond>>]
         ELSE KeyError("latent_mask")
    ELSE noisy

\* lines 127-167: the images saved in debug mode, in order
debug_images(self) ==
    IF has_conditioning_image_input(self.model_type) THEN 1..6 ELSE 1..5

\* lines 127-167: the debug block; fail is the first save that raises, 0 for none
debug_block(self, args, fail, has_cond_latent) ==
    IF ~args.debug_mode THEN None
    ELSE IF fail \in 1..5 THEN Raised("OSError")
    ELSE IF has_conditioning_image_input(self.model_type) /\ ~has_cond_latent
    THEN Raised("AttributeError")
    ELSE IF fail \in debug_images(self) THEN Raised("OSError")
    ELSE None

Out(ret, rng, ts) == [ret |-> ret, rng |-> rng, timestep |-> ts]

\* predict(self, batch, args), with self's global_step, the global generator's
\* state at entry and the debug save that fails: what it returns or raises,
\* the global generator's state at exit, and the timesteps it sampled
predict(self, global_step, batch, args, rng, fail) ==
    LET size == batch.size
        T == self.noise_scheduler.num_train_timesteps
        cond == has_conditioning_image_input(args.model_type)
        scaled == [kind |-> "scaled", of |-> Field(batch, "latent_image")]
        scaled_cond == IF cond
                       THEN [kind |-> "scaled", of |-> Field(batch, "latent_conditioning_image")]
                       ELSE None
        noise == latent_noise(rng, global_step, size, args)
        high == TimestepHigh(T, args.max_noising_strength)
    IN  IF ~Has(batch, "latent_image") THEN Out(KeyError("latent_image"), rng, <<>>)
        ELSE IF cond /\ ~Has(batch, "latent_conditioning_image")
        THEN Out(KeyError("latent_conditioning_image"), rng, <<>>)
        ELSE IF high <= 0 THEN Out(Raised("RuntimeError"), rng, <<>>)
        ELSE
        LET ts == timestep(rng, global_step, high, size)
            rng1 == Advance(rng, size)
            noisy == [kind |-> "add_noise", original_samples |-> scaled,
                      noise |-> noise, timesteps |-> ts]
            input == latent_input(batch, args, noisy, scaled_cond)
            dbg == debug_block(self, args, fail, cond)
        IN  IF ~Has(batch, "tokens") THEN Out(KeyError("tokens"), rng1, ts)
            ELSE IF IsRaised(input) THEN Out(input, rng1, ts)
            ELSE IF has_depth_input(args.model_type) /\ ~Has(batch, "latent_depth")
            THEN Out(KeyError("latent_depth"), rng1, ts)
            ELSE IF IsRaised(dbg) THEN Out(dbg, rng1, ts)
            ELSE Out([kind |-> "pair",
                      predicted |-> [unet |-> self.unet,
                                     input |-> input,
                                     timestep |-> ts,
                                     text |-> [text_encoder |-> self.text_encoder,
                                               tokens |-> Field(batch, "tokens")],
                                     depth |-> IF has_depth_input(args.model_type)
                                               THEN Field(batch, "latent_depth")
                                               ELSE None],
                      actual |-> noise],
                     rng1, ts)

----------------------------------------------------------------------------
(* StableDiffusionModel.create_pipeline *)

\* a pipeline over the bundle's sub-networks, with no safety checker and no
\* feature extractor
PlainPipeline(self, kind) ==
    [kind |-> kind,
     vae |-> self.vae, text_encoder |-> self.text_encoder,
     tokenizer |-> self.tokenizer, unet |-> self.unet,
     scheduler |-> self.noise_scheduler,
     depth_estimator |-> "None",
     feature_extractor |-> "None",
     safety_checker |-> "None"]

\* the conditioning-image branch tested before the depth branch
create_pipeline_cond_first(self) ==
    IF has_conditioning_image_input(self.model_type)
    THEN PlainPipeline(self, "StableDiffusionInpaintPipeline")
    ELSE IF has_depth_input(self.model_type)
    THEN [PlainPipeline(self, "StableDiffusionDepth2ImgPipeline") EXCEPT
             !.depth_estimator = self.depth_estimator,
             !.feature_extractor = self.image_depth_processor]
    ELSE PlainPipeline(self, "StableDiffusionPipeline")

create_pipeline(self) ==
    IF has_depth_input(self.model_type)
    THEN [PlainPipeline(self, "StableDiffusionDepth2ImgPipeline") EXCEPT
             !.depth_estimator = self.depth_estimator,
             !.feature_extractor = self.image_depth_processor]
    ELSE IF has_conditioning_image_input(self.model_type)
    THEN PlainPipeline(self, "StableDiffusionInpaintPipeline")
    ELSE PlainPipeline(self, "StableDiffusionPipeline")

----------------------------------------------------------------------------
(* Actions of the loader and of the training loop that owns the bundle *)

NoCall == [kind |-> "None"]

Init ==
    /\ model = None
    /\ heap = [a \in {DefaultAddr, OwnAddr} |-> ZeroProgress]
    /\ attempts = <<>>
    /\ loaded = NoCall
    /\ pipeline = None
    /\ rngGlobal = 0
    /\ lastPredict = NoCall
    /\ kept = NoCall

\* model = loader.load(name, model_type)
Load(name, model_type) ==
    LET r == load(name, model_type)
    IN  /\ model' = r.result
        /\ attempts' = r.calls
        /\ loaded' = [kind |-> "load", name |-> name, model_type |-> model_type]
        /\ heap' = [heap EXCEPT ![OwnAddr] =
                        IF r.result.kind = "model" /\ r.result.train_progress = OwnAddr
                        THEN name.progress ELSE ZeroProgress]
        /\ UNCHANGED <<pipeline, rngGlobal, lastPredict, kept>>

\* model.train_progress.next_step(), in place
NextStep ==
    /\ model.kind = "model"
    /\ heap[model.train_progress].global_step < MaxStep
    /\ heap' = [heap EXCEPT ![model.train_progress] = next_step(@)]
    /\ UNCHANGED <<model, attempts, loaded, pipeline, rngGlobal, lastPredict, kept>>

\* model.train_progress.next_epoch(), in place
NextEpoch ==
    /\ model.kind = "model"
    /\ heap[model.train_progress].epoch < MaxStep
    /\ heap' = [heap EXCEPT ![model.train_progress] = next_epoch(@)]
    /\ UNCHANGED <<model, attempts, loaded, pipeline, rngGlobal, lastPredict, kept>>

LoadAny == \E name \in Layouts, t \in LoadTypes : Load(name, t)

NextLoad == LoadAny \/ NextStep \/ NextEpoch

SpecLoad == Init /\ [][NextLoad]_vars

----------------------------------------------------------------------------
(* Actions on a loaded bundle: the training loop and pipeline creation *)

\* a directory in the bare-weights layout, with the depth subfolders
Bare(T) ==
    [kind |-> "dir", meta |-> "none", progress |-> TrainProgress(1, 0, 0, 1),
     optimizer |-> FALSE, weights |-> TRUE, depth |-> TRUE,
     timesteps |-> T, convertible |-> FALSE, yaml |-> FALSE, yml |-> FALSE]

\* the state right after model = loader.load(name, t)
InitLoaded(names, types) ==
    \E name \in names, t \in types :
        /\ load(name, t).result.kind = "model"
        /\ model = load(name, t).result
        /\ attempts = load(name, t).calls
        /\ loaded = [kind |-> "load", name |-> name, model_type |-> t]
        /\ heap = [a \in {DefaultAddr, OwnAddr} |->
                      IF a = OwnAddr /\ load(name, t).result.train_progress = OwnAddr
                      THEN name.progress ELSE ZeroProgress]
        /\ pipeline = None
        /\ rngGlobal = 0
        /\ lastPredict = NoCall
        /\ kept = NoCall

Batches(keysets) == [keys : keysets, size : 1..MaxBatch]

FullBatches == Batches({BatchKeys})

TrainArgs(weights, strengths, debug) ==
    [offset_noise_weight : weights, max_noising_strength : strengths, debug_mode : debug]

\* model.predict(batch, args), args.model_type being the bundle's type
Predict(batch, a, fail) ==
    /\ model.kind = "model"
    /\ LET args == [model_type |-> model.model_type,
                    offset_noise_weight |-> a.offset_noise_weight,
                    max_noising_strength |-> a.max_noising_strength,
                    debug_mode |-> a.debug_mode]
           gs == heap[model.train_progress].global_step
           out == predict(model, gs, batch, args, rngGlobal, fail)
       IN  /\ lastPredict' = [kind |-> "predict",
                              weights |-> <<model.text_encoder, model.vae, model.unet>>,
                              batch |-> batch, args |-> args, fail |-> fail,
                              global_step |-> gs, rng |-> rngGlobal,
                              ret |-> out.ret, timestep |-> out.timestep]
           /\ rngGlobal' = out.rng
    /\ UNCHANGED <<model, heap, attempts, loaded, pipeline, kept>>

\* any other draw from the process-global generator
GlobalDraw ==
    /\ rngGlobal' = Advance(rngGlobal, 1)
    /\ UNCHANGED <<model, heap, attempts, loaded, pipeline, lastPredict, kept>>

\* the caller keeps what the last predict call returned
Keep ==
    /\ lastPredict.kind = "predict"
    /\ kept' = lastPredict
    /\ UNCHANGED <<model, heap, attempts, loaded, pipeline, rngGlobal, lastPredict>>

\* pipeline = model.create_pipeline()
CreatePipeline ==
    /\ model.kind = "model"
    /\ pipeline' = create_pipeline(model)
    /\ UNCHANGED <<model, heap, attempts, loaded, rngGlobal, lastPredict, kept>>

(* predict on batches with one field or none removed *)
PredictFields ==
    \E b \in Batches({BatchKeys} \cup {BatchKeys \ {k} : k \in BatchKeys}),
       a \in TrainArgs({0}, {1, MnsDen}, {FALSE}) : Predict(b, a, 0)

NextFields == PredictFields \/ NextStep \/ GlobalDraw

SpecFields == InitLoaded({Bare(1), Bare(MaxT)}, FlagTypes) /\ [][NextFields]_vars

(* predict under every noising strength and step count *)
PredictSample ==
    \E b \in FullBatches, a \in TrainArgs({0}, 1..MnsDen, {FALSE}) : Predict(b, a, 0)

NextSample == PredictSample \/ NextStep \/ GlobalDraw

SpecSample == InitLoaded({Bare(T) : T \in 1..MaxT}, FlagTypes) /\ [][NextSample]_vars

(* predict with and without debug mode, any one of the image writes failing *)
PredictDebug ==
    \E b \in FullBatches, a \in TrainArgs({0}, {MnsDen}, BOOLEAN), fail \in 0..6 :
        Predict(b, a, fail)

NextDebug == PredictDebug \/ NextStep \/ GlobalDraw

SpecDebug == InitLoaded({Bare(MaxT)}, FlagTypes) /\ [][NextDebug]_vars

(* repeated predict calls, the caller keeping one to compare with *)
PredictNoise ==
    \E b \in FullBatches, a \in TrainArgs({0, 1}, {MnsDen}, {FALSE}) : Predict(b, a, 0)

NextNoise == PredictNoise \/ NextStep \/ GlobalDraw \/ Keep

SpecNoise ==
    InitLoaded({Bare(MaxT)}, {t \in FlagTypes : t.cond = t.mask /\ t.mask = t.depth})
        /\ [][NextNoise]_vars

(* pipeline creation on every bundle load can return *)
NextPipeline == CreatePipeline \/ NextStep \/ NextEpoch

SpecPipeline == InitLoaded(Layouts, ModelTypes) /\ [][NextPipeline]_vars

----------------------------------------------------------------------------
(* Claims about FineTuneModelLoader.load *)

Order == <<"internal", "diffusers", "ckpt">>

StrategyResult(i, name, t) ==
    CASE i = 1 -> load_internal_model(name, t)
      [] i = 2 -> load_diffusers_model(name, t)
      [] i = 3 -> load_ckpt_model(name, t)

\* C1: load calls the strategies in the order internal, diffusers, ckpt; it
\* calls a strategy only after every earlier one has failed, calls none after
\* one has succeeded, and returns the bundle of the earliest that succeeds.
C1_StrategiesInOrder ==
    loaded.kind = "load" =>
        /\ Len(attempts) \in 1..3
        /\ \A i \in 1..Len(attempts) : attempts[i].strategy = Order[i]
        /\ \A i \in 1..Len(attempts) : i < Len(attempts) => ~attempts[i].ok
        /\ \A i \in 1..3 :
               ( /\ StrategyResult(i, loaded.name, loaded.model_type).kind = "model"
                 /\ \A j \in 1..(i - 1) :
                        StrategyResult(j, loaded.name, loaded.model_type) = None )
               => /\ Len(attempts) = i
                  /\ attempts[i].ok
                  /\ model = StrategyResult(i, loaded.name, loaded.model_type)

\* a load that the single-file strategy answered, after the two others failed
C1_Witness ==
    /\ loaded.kind = "load"
    /\ Len(attempts) = 3
    /\ attempts[3].ok
    /\ model.kind = "model"

\* the three on-disk layouts, as section 6 of the specification describes them
MatchesBare(name, t) ==
    name.kind = "dir" /\ name.weights /\ (t.depth => name.depth)

MatchesInternal(name, t) ==
    name.kind = "dir" /\ name.meta = "ok" /\ name.optimizer /\ MatchesBare(name, t)

KnownTags == {"STABLE_DIFFUSION_15", "STABLE_DIFFUSION_15_INPAINTING",
              "STABLE_DIFFUSION_20", "STABLE_DIFFUSION_20_INPAINTING",
              "STABLE_DIFFUSION_20_DEPTH"}

MatchesCkpt(name, t) ==
    /\ name.kind = "file" /\ name.convertible
    /\ (name.yaml \/ name.yml \/ t.tag \in KnownTags)

\* C2: no exception escapes load, and when the identifier matches none of the
\* three layouts (every strategy fails, by an exception or not) load returns
\* None.
C2_TotalFailureReturnsNone ==
    loaded.kind = "load" =>
        /\ model.kind \in {"model", "None"}
        /\ \A i \in 1..Len(attempts) : ~attempts[i].raised
        /\ ( /\ ~MatchesInternal(loaded.name, loaded.model_type)
             /\ ~MatchesBare(loaded.name, loaded.model_type)
             /\ ~MatchesCkpt(loaded.name, loaded.model_type) )
           => model = None

\* a directory whose meta.json lacks the counters and whose weights are missing:
\* the first strategy fails by a KeyError, the others by I/O errors
C2_Witness ==
    /\ loaded.kind = "load"
    /\ loaded.name.kind = "dir" /\ loaded.name.meta = "bad" /\ ~loaded.name.weights
    /\ Len(attempts) = 3
    /\ model = None

BareOnly(name, t) ==
    /\ name.kind = "dir" /\ name.meta = "none"
    /\ name.weights /\ (t.depth => name.depth)

\* C3: in every reachable state, loading a directory that satisfies only the
\* bare-weights layout returns a bundle whose trainProgress counters are all 0
\* and whose optimizer state is absent.
C3_BareLoadIsZero ==
    [][ \A name \in Layouts, t \in LoadTypes :
            (BareOnly(name, t) /\ Load(name, t)) =>
                /\ model'.kind = "model"
                /\ heap'[model'.train_progress] = ZeroProgress
                /\ model'.optimizer_state_dict = "None" ]_vars

\* C4: every bundle load returns has its depth image-processor and its depth
\* estimator present exactly when its model type has a depth input.
C4_DepthIffFlag ==
    model.kind = "model" =>
        /\ (model.image_depth_processor # "None") <=> has_depth_input(model.model_type)
        /\ (model.depth_estimator # "None") <=> has_depth_input(model.model_type)

----------------------------------------------------------------------------
(* Claims about StableDiffusionModel.predict *)

Returned(call) == call.kind = "predict" /\ call.ret.kind = "pair"

\* the last predict call again, on its batch without the field key
Without(key) ==
    predict(model, lastPredict.global_step,
            [lastPredict.batch EXCEPT !.keys = @ \ {key}],
            lastPredict.args, lastPredict.rng, lastPredict.fail).ret

\* the fields the claim says the type's flags imply
ImpliedByFlags(t, key) ==
    \/ key \in {"latent_image", "tokens"}
    \/ key = "latent_conditioning_image" /\ t.cond
    \/ key = "latent_mask" /\ t.mask
    \/ key = "latent_depth" /\ t.depth

\* the same, the mask being implied by hasMaskInput and hasConditioningImageInput
ImpliedByFlagsBoth(t, key) ==
    \/ key \in {"latent_image", "tokens"}
    \/ key = "latent_conditioning_image" /\ t.cond
    \/ key = "latent_mask" /\ t.mask /\ t.cond
    \/ key = "latent_depth" /\ t.depth

\* C5 as stated: for a call that returned, removing a field whose flag is not
\* set leaves the result unchanged and removing one whose flag is set raises
\* KeyError, latent_mask going by hasMaskInput alone.
C5_FieldsByFlags ==
    Returned(lastPredict) =>
        \A key \in lastPredict.batch.keys :
            IF ImpliedByFlags(lastPredict.args.model_type, key)
            THEN Without(key) = KeyError(key)
            ELSE Without(key) = lastPredict.ret

\* C5 amended: the same, latent_mask being read exactly when both hasMaskInput
\* and hasConditioningImageInput are set.
C5_FieldsByFlagsBoth ==
    Returned(lastPredict) =>
        \A key \in lastPredict.batch.keys :
            IF ImpliedByFlagsBoth(lastPredict.args.model_type, key)
            THEN Without(key) = KeyError(key)
            ELSE Without(key) = lastPredict.ret

\* a call that returned, on a full batch, for a type with a mask input and no
\* conditioning image input
C5_Witness ==
    /\ Returned(lastPredict)
    /\ lastPredict.batch.keys = BatchKeys
    /\ lastPredict.args.model_type.mask
    /\ ~lastPredict.args.model_type.cond
    /\ lastPredict.args.model_type.depth

SameInputs(a, b) ==
    /\ a.weights = b.weights
    /\ a.batch = b.batch
    /\ a.args = b.args
    /\ a.global_step = b.global_step

\* C6: two predict calls that return, with the same weights, batch,
\* configuration and global step, return the same actualNoise, whatever
\* happened before and between them.
C6_SameNoise ==
    (Returned(kept) /\ Returned(lastPredict) /\ SameInputs(kept, lastPredict))
        => kept.ret.actual = lastPredict.ret.actual

\* two such calls that found the process-global generator in different states
C6_Witness ==
    /\ Returned(kept) /\ Returned(lastPredict) /\ SameInputs(kept, lastPredict)
    /\ kept.rng # lastPredict.rng
    /\ kept.global_step > 0
    /\ kept.args.offset_noise_weight > 0

\* C10: two predict calls with the same global step, batch and configuration
\* sample the same timesteps, however the process-global generator was
\* advanced before and between them.
C10_SameTimesteps ==
    (Returned(kept) /\ Returned(lastPredict) /\ SameInputs(kept, lastPredict))
        => kept.timestep = lastPredict.timestep

\* the last predict call again, with debug mode off
WithoutDebug ==
    predict(model, lastPredict.global_step, lastPredict.batch,
            [lastPredict.args EXCEPT !.debug_mode = FALSE],
            lastPredict.rng, lastPredict.fail).ret

\* C7: with debug mode on, a failing write of a debug image does not abort
\* predict: it returns what it returns with debug mode off.
C7_DebugFailureSwallowed ==
    ( /\ lastPredict.kind = "predict"
      /\ lastPredict.args.debug_mode
      /\ lastPredict.fail \in debug_images(model) )
    => lastPredict.ret = WithoutDebug

Floor(T, k) == (T * k) \div MnsDen

SampledIn(call, high) ==
    /\ Len(call.timestep) = call.batch.size
    /\ \A i \in 1..Len(call.timestep) : 0 <= call.timestep[i] /\ call.timestep[i] < high

\* C9 as stated: for every step count T >= 1, strength in (0,1] and batch size
\* >= 1 the sampling succeeds, each timestep t having 0 <= t < floor(T * s) <= T.
C9_SamplingSucceeds ==
    lastPredict.kind = "predict" =>
        LET T == model.noise_scheduler.num_train_timesteps
            high == Floor(T, lastPredict.args.max_noising_strength)
        IN  /\ lastPredict.ret # Raised("RuntimeError")
            /\ SampledIn(lastPredict, high)
            /\ high <= T

\* C9 amended: when floor(T * s) >= 1 the sampling succeeds, each timestep t
\* having 0 <= t < floor(T * s) <= T; when floor(T * s) = 0 it raises and
\* predict fails without a timestep.
C9_SamplingInRange ==
    lastPredict.kind = "predict" =>
        LET T == model.noise_scheduler.num_train_timesteps
            high == Floor(T, lastPredict.args.max_noising_strength)
        IN  IF high >= 1
            THEN /\ Returned(lastPredict)
                 /\ SampledIn(lastPredict, high)
                 /\ high <= T
            ELSE /\ lastPredict.ret = Raised("RuntimeError")
                 /\ lastPredict.timestep = <<>>

\* strength 1 on the longest schedule, the last timestep of it being sampled
C9_Witness ==
    /\ Returned(lastPredict)
    /\ model.noise_scheduler.num_train_timesteps = MaxT
    /\ lastPredict.args.max_noising_strength = MnsDen
    /\ lastPredict.batch.size = MaxBatch
    /\ \E i \in 1..Len(lastPredict.timestep) : lastPredict.timestep[i] = MaxT - 1

----------------------------------------------------------------------------
(* Claims about StableDiffusionModel.create_pipeline *)

Variant(t) ==
    CASE t.depth -> "StableDiffusionDepth2ImgPipeline"
      [] ~t.depth /\ t.cond -> "StableDiffusionInpaintPipeline"
      [] ~t.depth /\ ~t.cond -> "StableDiffusionPipeline"

\* C8: create_pipeline returns the depth variant when hasDepthInput is set,
\* else the inpaint variant when hasConditioningImageInput is set, else the
\* plain variant, and changes no field of the bundle.
C8_PipelineByPriority ==
    /\ [](pipeline # None => pipeline.kind = Variant(model.model_type))
    /\ [][pipeline' # pipeline => (model' = model /\ heap' = heap)]_vars

\* a pipeline created for a type with both a depth and a conditioning input
C8_Witness ==
    /\ pipeline # None
    /\ model.model_type.depth
    /\ model.model_type.cond
    /\ pipeline.kind = "StableDiffusionDepth2ImgPipeline"

====
